---------------------------- MODULE Spec2Model ----------------------------
(***************************************************************************)
(* Model of the power-automate repository: the command relay               *)
(* (PowerAutomate::new / PowerAutomate::execute in src/src/power_automate.rs*)
(* and src/src/main.rs), the acquisition driver (AquisitionDriver) and the *)
(* two window stitchers (Aquisition::combine in src/src/aquisition.rs and  *)
(* combine_datfiles in src/src/power_automate.rs).                         *)
(***************************************************************************)
EXTENDS Integers, Sequences, FiniteSets, TLC

(***************************************************************************)
(* Bounds of the model.                                                    *)
(***************************************************************************)
\* number of tasks that may call PowerAutomate::execute
NumCallers == 2

\* capacity of the relay channel: mpsc::channel(1)
ChannelCapacity == 1

Callers == 1 .. NumCallers

VARIABLES
    \* ---- PowerAutomate (relay) ----
    pc,        \* pc[c]: where caller c is inside execute
    cmd,       \* cmd[c]: the command caller c is executing
    chan,      \* the mpsc buffer: messages (command, oneshot sender)
    oneshot,   \* ServerState.oneshot: <<>> for None, <<c>> for Some(sender of c)
    reply,     \* reply[c]: caller c's oneshot channel
    poisoned,  \* the Mutex around ServerState is poisoned
    resp,      \* resp[c]: the text the last execute of c received
    ret,       \* ret[c]: the parsed result the last execute of c returned
    \* ---- history of the agent's requests (not program state) ----
    owed,      \* callers whose command a GET returned and no POST followed yet
    posted,    \* posted[c]: body of the POST that followed the GET of c's command
    behind,    \* behind[c]: c's execute started while a request was outstanding
    \* ---- Aquisition::combine (src/src/aquisition.rs) ----
    aq_self,   \* the accumulated Aquisition
    aq_other,  \* the new window
    aq_out,    \* what combine(self, other) produced
    \* ---- combine_datfiles (src/src/power_automate.rs) ----
    df_a,      \* signals of the accumulated DatFile
    df_b,      \* signals of the new export
    df_acc,    \* acc_datfile after the fold in aquire_duration
    \* ---- AquisitionDriver ----
    made,      \* AquisitionDriver::new has returned a driver
    cache,     \* the driver's pkpk, period, offset, symmetry: <<>> is None
    stack,     \* the driver's async call stack, innermost frame first
    loc,       \* locals of the running operation
    rv,        \* Result handed from a returned callee to its caller
    outcome,   \* how the last operation of the driver ended
    \* ---- the desktop the agent acts on ----
    focused,   \* title of the focused window
    running,   \* the waveform generator runs
    wf_open,   \* the WaveForms window is open
    file,      \* the export file exists on disk
    \* ---- what an observer of the driver has seen (not program state) ----
    call,      \* the operation the program called last, with its settings
    prev,      \* the operation called before it, and how it ended
    log,       \* commands the relay received since that call, with their results
    acked,     \* per setting, the arguments of the last set-command answered Ok
    \* ---- the clock of aquire_duration and its trimming ----
    sched,     \* the export loop of aquire_duration on a clock
    trim       \* the trimming of the accumulated series

relayVars == <<pc, cmd, chan, oneshot, reply, poisoned, resp, ret>>
histVars  == <<owed, posted, behind>>

aqVars    == <<aq_self, aq_other, aq_out>>
dfVars    == <<df_a, df_b, df_acc>>

drvVars   == <<made, cache, stack, loc, rv, outcome>>
envVars   == <<focused, running, wf_open, file>>
obsVars   == <<call, prev, log, acked>>
timeVars  == <<sched, trim>>

vars == <<pc, cmd, chan, oneshot, reply, poisoned, resp, ret, owed, posted, behind,
          aq_self, aq_other, aq_out, df_a, df_b, df_acc,
          made, cache, stack, loc, rv, outcome, focused, running, wf_open, file,
          call, prev, log, acked, sched, trim>>

(***************************************************************************)
(* Commands and response texts.                                            *)
(***************************************************************************)
\* pa_fn!: a command is the JSON object {"command": name, args...}
Cmd(name, args) == [command |-> name, args |-> args]

\* the result type R of each pa_fn! command
RetType(name) ==
    CASE name \in {"wavegen_is_running", "is_window_open"} -> "bool"
      [] name = "get_open_window" -> "string"
      [] OTHER -> "unit"

NoText == <<>>
NoRet  == <<>>

\* A response text is a JSON-ish tagged result, kept as <<tag, payload token>>.
\* The agent spells booleans True/False and escapes blanks as '+'.
WaveFormsTitle == "WaveForms (new workspace)"
HistoryTitle   == "History"
OtherTitle     == "Desktop"
Windows        == {WaveFormsTitle, HistoryTitle, OtherTitle}

Encoded(w) ==
    CASE w = WaveFormsTitle -> "\"WaveForms+(new+workspace)\""
      [] w = HistoryTitle   -> "\"History\""
      [] OTHER              -> "\"Desktop\""

\* execute, lines 367-371: url decode, '+' -> ' ', False -> false, True -> true
PatchToken(t) ==
    CASE t = "True"  -> "true"
      [] t = "False" -> "false"
      [] t = "\"WaveForms+(new+workspace)\"" -> "\"WaveForms (new workspace)\""
      [] OTHER -> t

Patched(text) == [i \in DOMAIN text |-> PatchToken(text[i])]

StringTokens == {"\"WaveForms (new workspace)\"", "\"History\"", "\"Desktop\""}

Decoded(t) ==
    CASE t = "\"WaveForms (new workspace)\"" -> WaveFormsTitle
      [] t = "\"History\"" -> HistoryTitle
      [] OTHER -> OtherTitle

\* serde_json::from_str::<Result<R, ServerError>>: <<"Ok", v>>, <<"Err", msg>>
\* or <<"Invalid">> when the text is no value of the type (unwrap panics)
ParseResult(text, type) ==
    IF Len(text) # 2 THEN <<"Invalid">>
    ELSE IF text[1] = "Err" THEN <<"Err", text[2]>>
    ELSE IF text[1] # "Ok" THEN <<"Invalid">>
    ELSE CASE type = "bool" /\ text[2] = "true"  -> <<"Ok", TRUE>>
           [] type = "bool" /\ text[2] = "false" -> <<"Ok", FALSE>>
           [] type = "unit" /\ text[2] = "null"  -> <<"Ok", "unit">>
           [] type = "string" /\ text[2] \in StringTokens -> <<"Ok", Decoded(text[2])>>
           [] OTHER -> <<"Invalid">>

\* texts an arbitrary HTTP client may POST
Bodies == {<<"Ok", "True">>, <<"Ok", "null">>, <<"Err", "\"failed\"">>}

\* commands of the tasks that call execute directly
CallerCommands == {Cmd("wavegen_is_running", <<>>), Cmd("wavegen_toggle_running", <<>>)}

(***************************************************************************)
(* Oneshot channels: one per execute call; a caller has at most one live.  *)
(***************************************************************************)
Unused     == <<"none">>
Pending    == <<"pending">>
Dropped    == <<"dropped">>
Value(t)   == <<"value", t>>
IsValue(r) == r[1] = "value"

\* requests submitted (their send completed) whose reply slot is unfulfilled:
\* queued in the channel, or handed out by a GET and not yet answered
Outstanding == {c \in Callers : pc[c] = "recv" /\ reply[c] = Pending}

(***************************************************************************)
(* PowerAutomate::execute                                                  *)
(***************************************************************************)
\* line 364: oneshot::channel() makes a fresh channel, whatever the last held
NewOneshotReused(old) == IF IsValue(old) THEN old ELSE Pending

NewOneshot(old) == Pending

\* lines 363-364: serialize the command, create the oneshot channel
ExecStart(c, m) ==
    /\ pc[c] = "idle"
    /\ pc' = [pc EXCEPT ![c] = "send"]
    /\ cmd' = [cmd EXCEPT ![c] = m]
    /\ reply' = [reply EXCEPT ![c] = NewOneshot(reply[c])]
    /\ resp' = [resp EXCEPT ![c] = NoText]
    /\ ret' = [ret EXCEPT ![c] = NoRet]
    /\ posted' = [posted EXCEPT ![c] = NoText]
    /\ behind' = [behind EXCEPT ![c] = (Outstanding # {})]
    /\ UNCHANGED <<chan, oneshot, poisoned, owed>>

\* line 365: channel_send.send((command_str, send)).await completes when the
\* bounded buffer has room
SendReady == Len(chan) < ChannelCapacity

ExecSend(c) ==
    /\ pc[c] = "send"
    /\ SendReady
    /\ chan' = Append(chan, [command |-> cmd[c], sender |-> c])
    /\ pc' = [pc EXCEPT ![c] = "recv"]
    /\ UNCHANGED <<cmd, oneshot, reply, poisoned, resp, ret, owed, posted, behind>>

\* line 366: recv.await resolves when the sender sent a value or was dropped
RecvPolledOnce(c) == TRUE

RecvReady(c) == reply[c] # Pending

\* lines 366-375: receive, patch, parse; unwrap panics on a dropped sender and
\* on a text that does not parse
ExecRecv(c) ==
    /\ pc[c] = "recv"
    /\ RecvReady(c)
    /\ LET got == IF IsValue(reply[c]) THEN reply[c][2] ELSE NoText
           res == IF IsValue(reply[c])
                  THEN ParseResult(Patched(got), RetType(cmd[c].command))
                  ELSE <<"Invalid">>
       IN  /\ resp' = [resp EXCEPT ![c] = got]
           /\ ret' = [ret EXCEPT ![c] = res]
           /\ pc' = [pc EXCEPT ![c] = IF res = <<"Invalid">> THEN "panicked" ELSE "idle"]
    /\ UNCHANGED <<cmd, chan, oneshot, reply, poisoned, owed, posted, behind>>

(***************************************************************************)
(* The two HTTP handlers of PowerAutomate::new                             *)
(***************************************************************************)
\* the oneshot sender the server held, dropped without a value
DropSender(r, slot) ==
    IF slot # <<>> /\ r[slot[1]] = Pending
    THEN [r EXCEPT ![slot[1]] = Dropped]
    ELSE r

\* GET /, lines 327-338
Get ==
    /\ ~poisoned
    /\ IF chan # <<>>
       THEN /\ oneshot' = <<Head(chan).sender>>
            /\ reply' = DropSender(reply, oneshot)
            /\ chan' = Tail(chan)
            /\ owed' = Append(owed, Head(chan).sender)
       ELSE UNCHANGED <<oneshot, reply, chan, owed>>
    /\ UNCHANGED <<pc, cmd, poisoned, resp, ret, posted, behind>>

\* POST /, lines 342-351: oneshot.take().unwrap().send(body).unwrap(); the
\* unwrap of None panics while the lock guard is alive and poisons the Mutex
Post(body) ==
    /\ ~poisoned
    /\ IF oneshot # <<>>
       THEN /\ reply' = [reply EXCEPT ![oneshot[1]] = Value(body)]
            /\ oneshot' = <<>>
            /\ UNCHANGED poisoned
       ELSE /\ poisoned' = TRUE
            /\ UNCHANGED <<reply, oneshot>>
    /\ IF owed # <<>>
       THEN /\ posted' = [posted EXCEPT ![Head(owed)] = body]
            /\ owed' = Tail(owed)
       ELSE UNCHANGED <<posted, owed>>
    /\ UNCHANGED <<pc, cmd, chan, resp, ret, behind>>

\* lines 328 and 343-345: lock().unwrap() on the poisoned Mutex panics; the
\* request's task ends and the state is left as it was
HandlerPanic ==
    /\ poisoned
    /\ UNCHANGED <<relayVars, histVars>>

(***************************************************************************)
(* Aquisition::combine, src/src/aquisition.rs lines 51-80                  *)
(***************************************************************************)
\* longest accumulated window and longest new window drawn as inputs
MaxLenSelf  == 1
MaxLenOther == 3

\* sample values (f64 in the code; only equality of samples matters)
Vals == {0, 1}

\* a synchronous sample: <<probe, current, voltage>>
Samples == Vals \X Vals \X Vals

WindowsUpTo(n) == UNION {[1 .. k -> Samples] : k \in 0 .. n}

Channel(w, j) == [i \in 1 .. Len(w) |-> w[i][j]]

\* (wavegen_settings, sample_period_ms) of a window
Metas == {[settings |-> "s1", sample_period_ms |-> 10],
          [settings |-> "s1", sample_period_ms |-> 20]}

MkAquisition(w, m) ==
    [probe |-> Channel(w, 1), current |-> Channel(w, 2), voltage |-> Channel(w, 3),
     wavegen_settings |-> m.settings, sample_period_ms |-> m.sample_period_ms]

\* vec.iter().skip(n)
Skip(vec, n) == IF n >= Len(vec) THEN <<>> ELSE SubSeq(vec, n + 1, Len(vec))

RECURSIVE PositionsFrom(_, _, _)
\* line 54: inds = vec.iter().positions(|f| f == v), 0-based, ascending
PositionsFrom(vec, v, i) ==
    IF i > Len(vec) THEN <<>>
    ELSE (IF vec[i] = v THEN <<i - 1>> ELSE <<>>) \o PositionsFrom(vec, v, i + 1)

Inds(vec, v) == PositionsFrom(vec, v, 1)

\* lines 55-60: iproduct!(v1, v2).filter(|(a, b)| a == b).map(|(a, _)| *a)
Intersect(v1, v2) ==
    LET n == Len(v1) * Len(v2)
        pairs == [k \in 1 .. n |->
                     <<v1[((k - 1) \div Len(v2)) + 1], v2[((k - 1) % Len(v2)) + 1]>>]
        same(p) == p[1] = p[2]
        kept == SelectSeq(pairs, same)
    IN  [k \in 1 .. Len(kept) |-> kept[k][1]]

RECURSIVE SortByLen(_)
\* line 68: ind_sets.sort_by_key(|v| v.len()), a stable sort
SortByLen(sets) ==
    IF sets = <<>> THEN <<>>
    ELSE LET least == CHOOSE i \in 1 .. Len(sets) :
                         /\ \A j \in 1 .. Len(sets) : Len(sets[i]) <= Len(sets[j])
                         /\ \A j \in 1 .. (i - 1) : Len(sets[j]) > Len(sets[i])
             rest == [k \in 1 .. (Len(sets) - 1) |->
                         IF k < least THEN sets[k] ELSE sets[k + 1]]
         IN  <<sets[least]>> \o SortByLen(rest)

NoIndex == -1

\* a variant that takes the first surviving candidate instead of failing
PickIndexFirst(ind_sets) ==
    IF Len(ind_sets[1]) >= 1 THEN ind_sets[1][1]
    ELSE NoIndex

\* lines 69-75: the overlap index, or NoIndex where the code panics
PickIndex(ind_sets) ==
    IF Len(ind_sets[1]) = 1 THEN ind_sets[1][1]
    ELSE IF Len(Intersect(ind_sets[1], ind_sets[2])) = 1
         THEN Intersect(ind_sets[1], ind_sets[2])[1]
         ELSE NoIndex

\* what combine gave: the merged channels and (line 69) the index ind it cut at
Panicked == [status |-> "panic", ind |-> NoIndex,
             probe |-> <<>>, current |-> <<>>, voltage |-> <<>>]
NotRun   == [status |-> "none", ind |-> NoIndex,
             probe |-> <<>>, current |-> <<>>, voltage |-> <<>>]

\* a variant that appends other's voltage from the overlap index itself on
CombineSkewed(self, other) ==
    IF self.wavegen_settings # other.wavegen_settings THEN Panicked
    ELSE IF self.sample_period_ms # other.sample_period_ms THEN Panicked
    ELSE IF self.probe = <<>> \/ self.current = <<>> \/ self.voltage = <<>> THEN Panicked
    ELSE LET ind == PickIndex(SortByLen(
                        <<Inds(other.probe, self.probe[Len(self.probe)]),
                          Inds(other.current, self.current[Len(self.current)]),
                          Inds(other.voltage, self.voltage[Len(self.voltage)])>>))
         IN  IF ind = NoIndex THEN Panicked
             ELSE [status  |-> "ok",
                   ind     |-> ind,
                   probe   |-> self.probe \o Skip(other.probe, ind + 1),
                   current |-> self.current \o Skip(other.current, ind + 1),
                   voltage |-> self.voltage \o Skip(other.voltage, ind)]

\* lines 51-80
Combine(self, other) ==
    IF self.wavegen_settings # other.wavegen_settings THEN Panicked
    ELSE IF self.sample_period_ms # other.sample_period_ms THEN Panicked
    ELSE IF self.probe = <<>> \/ self.current = <<>> \/ self.voltage = <<>> THEN Panicked
    ELSE LET last_probe   == self.probe[Len(self.probe)]
             last_current == self.current[Len(self.current)]
             last_voltage == self.voltage[Len(self.voltage)]
             ind_sets == SortByLen(<<Inds(other.probe, last_probe),
                                     Inds(other.current, last_current),
                                     Inds(other.voltage, last_voltage)>>)
             ind == PickIndex(ind_sets)
         IN  IF ind = NoIndex THEN Panicked
             ELSE [status  |-> "ok",
                   ind     |-> ind,
                   probe   |-> self.probe \o Skip(other.probe, ind + 1),
                   current |-> self.current \o Skip(other.current, ind + 1),
                   voltage |-> self.voltage \o Skip(other.voltage, ind + 1)]

\* one call self.combine(other)
DoCombine ==
    /\ aq_out = NotRun
    /\ aq_out' = Combine(aq_self, aq_other)
    /\ UNCHANGED <<aq_self, aq_other, dfVars, relayVars, histVars, drvVars, envVars,
                   obsVars, timeVars>>

NoWindow == MkAquisition(<<>>, [settings |-> "s1", sample_period_ms |-> 10])

AqIdle == aq_self = NoWindow /\ aq_other = NoWindow /\ aq_out = NotRun

(***************************************************************************)
(* combine_datfiles, src/src/power_automate.rs lines 257-282, and the fold *)
(* of aquire_duration, lines 103-106                                       *)
(***************************************************************************)
\* longest DatFile signal drawn as input
MaxLenDat == 3

\* names of the signals of an export (DatFile.signals is a BTreeMap)
SignalNames  == {"Current (A)", "Voltage Monitor (V)"}
OtherNames   == {"Current (A)", "Z (m)"}

SignalsUpTo(names, n) == UNION {[names -> [1 .. k -> Vals]] : k \in 0 .. n}

Min(S) == CHOOSE x \in S : \A y \in S : x <= y

\* lines 268-271: positions(|f| *f == m).flat_map(|p| [p, p + 1, p + 2])
Candidates(v, m) ==
    UNION {{p - 1, p, p + 1} : p \in {i \in 1 .. Len(v) : v[i] = m}}

DatPanic == [status |-> "panic", signals |-> <<>>]
DatNone  == [status |-> "none", signals |-> <<>>]

\* lines 257-282; the BTreeMaps are zipped in key order, equal by the assert
CombineDatfiles(a, b) ==
    IF DOMAIN a # DOMAIN b THEN DatPanic
    ELSE IF \E key \in DOMAIN a : a[key] = <<>> THEN DatPanic
    ELSE LET sets == {Candidates(b[key], a[key][Len(a[key])]) : key \in DOMAIN a}
             common == {p \in UNION sets : \A set \in sets : p \in set}
         IN  IF common = {} THEN DatPanic
             ELSE LET index == Min(common)
                  IN  [status |-> "ok",
                       signals |-> [key \in DOMAIN a |-> a[key] \o Skip(b[key], index + 1)]]

\* lines 103-106: acc_datfile = Some(combine_datfiles(df, new_datfile))
AquireFold ==
    /\ df_acc = DatNone
    /\ df_acc' = CombineDatfiles(df_a, df_b)
    /\ UNCHANGED <<df_a, df_b, aqVars, relayVars, histVars, drvVars, envVars,
                   obsVars, timeVars>>

DfIdle == df_a = <<>> /\ df_b = <<>> /\ df_acc = DatNone

StitchIdle == AqIdle /\ DfIdle

(***************************************************************************)
(* AquisitionDriver, src/src/power_automate.rs lines 58-255                *)
(***************************************************************************)
WAVEGEN_GAIN == 40

\* f64 values are the naturals and NaN; set_ramp_time (line 43) computes
\* symmetry_p = 0. / 0. * 100. = NaN for a zero ramp and rest time
NaN == -1

\* f64 division, on the values the model uses
FDiv(a, b) == IF a = NaN THEN NaN ELSE a \div b

\* f64's != : NaN differs from every value, itself included
FloatNe(a, b) == a = NaN \/ b = NaN \/ a # b

\* Option<f64>'s != against Some(v), lines 169, 178, 185, 194
OptionNe(opt, v) == opt = <<>> \/ FloatNe(opt[1], v)

\* WavegenSettings values the operations are called with
DefaultSettings == [pkpk |-> 0, period |-> 0, symmetry_p |-> 0, offset |-> 0]
SettingsSet ==
    {DefaultSettings,
     [pkpk |-> 80, period |-> 4, symmetry_p |-> 50, offset |-> 0],
     [pkpk |-> 160, period |-> 4, symmetry_p |-> 50, offset |-> 0],
     [pkpk |-> 0, period |-> 0, symmetry_p |-> NaN, offset |-> 0]}

\* the four cached settings in the order apply_wavegen_settings sets them
Fields == <<"pkpk", "period", "offset", "symmetry">>

NoCache == [f \in {"pkpk", "period", "offset", "symmetry"} |-> <<>>]

\* the value of a field in a WavegenSettings
Wanted(settings, f) ==
    CASE f = "pkpk"   -> settings.pkpk
      [] f = "period" -> settings.period
      [] f = "offset" -> settings.offset
      [] OTHER        -> settings.symmetry_p

\* lines 171, 179, 187, 195: the command each setter issues
SetCommand(f, v) ==
    CASE f = "pkpk"   -> Cmd("wavegen_set_amplitude", <<FDiv(FDiv(v, WAVEGEN_GAIN), 2)>>)
      [] f = "period" -> Cmd("wavegen_set_period", <<v>>)
      [] f = "offset" -> Cmd("wavegen_set_offset", <<FDiv(FDiv(v, WAVEGEN_GAIN), 2)>>)
      [] OTHER        -> Cmd("wavegen_set_symmetry", <<v>>)

\* the task the driver runs on
Drv == 1

NoLoc == [settings |-> DefaultSettings, open_window |-> "", res |-> "none",
          aq_done |-> FALSE, exports |-> 0]

Frame(at, w, f) == [at |-> at, w |-> w, f |-> f]

\* nothing called, nothing seen yet
NoOp == Frame("none", "", 0)

NoCall == [frame |-> NoOp, settings |-> DefaultSettings, outcome |-> "none",
           refused |-> "none"]

ObsIdle == call = NoCall /\ prev = NoCall /\ log = <<>> /\ acked = NoCache

NoSched == [at |-> "idle"]
NoTrim  == [at |-> "idle"]

TimeIdle == sched = NoSched /\ trim = NoTrim

DriverIdle ==
    /\ ObsIdle /\ TimeIdle
    /\ made = FALSE
    /\ cache = NoCache
    /\ stack = <<>>
    /\ loc = NoLoc
    /\ rv = "none"
    /\ outcome = "none"
    /\ focused = OtherTitle
    /\ running = FALSE
    /\ wf_open = TRUE
    /\ file = FALSE

IsErr(r) == r[1] = "Err"

\* the driver is at label l and is not suspended in an execute
At(l) ==
    /\ stack # <<>>
    /\ Head(stack).at = l
    /\ pc[Drv] = "idle"

Top == Head(stack)

Quiet == UNCHANGED <<relayVars, histVars>>

Goto(l) == stack' = <<[Top EXCEPT !.at = l]>> \o Tail(stack)

\* call an async fn and come back at label l
Call(frame, l) == stack' = <<frame, [Top EXCEPT !.at = l]>> \o Tail(stack)

\* self.pa.<command>(..).await and come back at label l
Issue(m, l) == ExecStart(Drv, m) /\ Goto(l)

\* return v ("ok" or "err") to the caller, or end the operation
Return(v) ==
    /\ stack' = Tail(stack)
    /\ rv' = IF Tail(stack) = <<>> THEN "none" ELSE v
    /\ outcome' = IF Tail(stack) = <<>> THEN v ELSE outcome
    /\ loc' = IF Tail(stack) = <<>> THEN NoLoc ELSE loc

DrvFrame == UNCHANGED <<aqVars, dfVars, envVars, obsVars, timeVars>>

\* ---- AquisitionDriver::new, lines 232-254 ----
NewEnter ==
    /\ At("new")
    /\ Issue(Cmd("is_window_open", <<WaveFormsTitle, "">>), "new_open")
    /\ UNCHANGED <<made, cache, loc, rv, outcome>> /\ DrvFrame

\* a variant that does not look at the answer of is_window_open
NewOpenUnchecked ==
    /\ At("new_open")
    /\ IF IsErr(ret[Drv])
       THEN Return("err") /\ Quiet
       ELSE Issue(Cmd("wavegen_set_trapezium", <<>>), "new_trap")
            /\ UNCHANGED <<loc, rv, outcome>>
    /\ UNCHANGED <<made, cache>> /\ DrvFrame

NewOpen ==
    /\ At("new_open")
    /\ IF IsErr(ret[Drv]) \/ ret[Drv][2] = FALSE
       THEN Return("err") /\ Quiet
       ELSE Issue(Cmd("wavegen_set_trapezium", <<>>), "new_trap")
            /\ UNCHANGED <<loc, rv, outcome>>
    /\ UNCHANGED <<made, cache>> /\ DrvFrame

NewTrapezium ==
    /\ At("new_trap")
    /\ IF IsErr(ret[Drv])
       THEN Return("err") /\ UNCHANGED <<made, cache>>
       ELSE Return("ok") /\ made' = TRUE /\ cache' = NoCache
    /\ Quiet /\ DrvFrame

\* ---- set_wavegen_pkpk/period/offset/symmetry, lines 168-199, called in
\* ---- turn by apply_wavegen_settings, lines 200-206 ----
AfterSetter ==
    IF Top.f < Len(Fields)
    THEN stack' = <<Frame("set", "", Top.f + 1)>> \o Tail(stack)
         /\ UNCHANGED <<loc, rv, outcome>>
    ELSE Return("ok")

SetterEnter ==
    /\ At("set")
    /\ LET f == Fields[Top.f]
           v == Wanted(loc.settings, f)
       IN  IF OptionNe(cache[f], v)
           THEN Issue(SetCommand(f, v), "set_sent") /\ UNCHANGED <<loc, rv, outcome>>
           ELSE AfterSetter /\ Quiet
    /\ UNCHANGED <<made, cache>> /\ DrvFrame

\* a variant that caches the value whatever the answer was
SetterDoneEager ==
    /\ At("set_sent")
    /\ LET f == Fields[Top.f]
       IN  /\ IF IsErr(ret[Drv]) THEN Return("err") ELSE AfterSetter
           /\ cache' = [cache EXCEPT ![f] = <<Wanted(loc.settings, f)>>]
    /\ Quiet /\ UNCHANGED made /\ DrvFrame

SetterDone ==
    /\ At("set_sent")
    /\ LET f == Fields[Top.f]
       IN  IF IsErr(ret[Drv])
           THEN Return("err") /\ UNCHANGED cache
           ELSE AfterSetter /\ cache' = [cache EXCEPT ![f] = <<Wanted(loc.settings, f)>>]
    /\ Quiet /\ UNCHANGED made /\ DrvFrame

\* ---- focus_window, lines 214-220 ----
FocusEnter ==
    /\ At("fw")
    /\ Issue(Cmd("get_open_window", <<>>), "fw_got")
    /\ UNCHANGED <<made, cache, loc, rv, outcome>> /\ DrvFrame

FocusGot ==
    /\ At("fw_got")
    /\ IF IsErr(ret[Drv]) THEN Return("err") /\ Quiet
       ELSE IF ret[Drv][2] # Top.w
            THEN Issue(Cmd("focus_window", <<Top.w, "">>), "fw_set")
                 /\ UNCHANGED <<loc, rv, outcome>>
            ELSE Return("ok") /\ Quiet
    /\ UNCHANGED <<made, cache>> /\ DrvFrame

FocusSet ==
    /\ At("fw_set")
    /\ Return(IF IsErr(ret[Drv]) THEN "err" ELSE "ok")
    /\ Quiet /\ UNCHANGED <<made, cache>> /\ DrvFrame

\* ---- start_wavegen (Top.f = 1), stop_wavegen (Top.f = 0), lines 154-167 ----
RunEnter ==
    /\ At("run")
    /\ Call(Frame("fw", WaveFormsTitle, 0), "run_focused")
    /\ Quiet /\ UNCHANGED <<made, cache, loc, rv, outcome>> /\ DrvFrame

RunFocused ==
    /\ At("run_focused")
    /\ IF rv = "err" THEN Return("err") /\ Quiet
       ELSE Issue(Cmd("wavegen_is_running", <<>>), "run_state")
            /\ rv' = "none" /\ UNCHANGED <<loc, outcome>>
    /\ UNCHANGED <<made, cache>> /\ DrvFrame

\* a variant that toggles without looking at the reported run state
RunStateBlind ==
    /\ At("run_state")
    /\ IF IsErr(ret[Drv]) THEN Return("err") /\ Quiet
       ELSE Issue(Cmd("wavegen_toggle_running", <<>>), "run_toggled")
            /\ UNCHANGED <<loc, rv, outcome>>
    /\ UNCHANGED <<made, cache>> /\ DrvFrame

RunState ==
    /\ At("run_state")
    /\ IF IsErr(ret[Drv]) THEN Return("err") /\ Quiet
       ELSE IF (Top.f = 1 /\ ~ret[Drv][2]) \/ (Top.f = 0 /\ ret[Drv][2])
            THEN Issue(Cmd("wavegen_toggle_running", <<>>), "run_toggled")
                 /\ UNCHANGED <<loc, rv, outcome>>
            ELSE Return("ok") /\ Quiet
    /\ UNCHANGED <<made, cache>> /\ DrvFrame

RunToggled ==
    /\ At("run_toggled")
    /\ Return(IF IsErr(ret[Drv]) THEN "err" ELSE "ok")
    /\ Quiet /\ UNCHANGED <<made, cache>> /\ DrvFrame

\* ---- with_window, lines 221-231, with f = nanonis_save_history as
\* ---- save_dat passes it, lines 207-213 ----
SaveCommand == Cmd("nanonis_save_history", <<"tmp", "temp.dat">>)

\* a variant that starts f when with_window is entered, beside its first query
WithWindowEager ==
    /\ At("ww")
    /\ pc[2] = "idle"
    /\ pc' = [pc EXCEPT ![Drv] = "send", ![2] = "send"]
    /\ cmd' = [cmd EXCEPT ![Drv] = Cmd("get_open_window", <<>>), ![2] = SaveCommand]
    /\ reply' = [reply EXCEPT ![Drv] = Pending, ![2] = Pending]
    /\ resp' = [resp EXCEPT ![Drv] = NoText, ![2] = NoText]
    /\ ret' = [ret EXCEPT ![Drv] = NoRet, ![2] = NoRet]
    /\ posted' = [posted EXCEPT ![Drv] = NoText, ![2] = NoText]
    /\ UNCHANGED <<chan, oneshot, poisoned, owed, behind>>
    /\ Goto("ww_got")
    /\ UNCHANGED <<made, cache, loc, rv, outcome>> /\ DrvFrame

\* line 226: the future f is not polled before line 228
WithWindowEnter ==
    /\ At("ww")
    /\ Issue(Cmd("get_open_window", <<>>), "ww_got")
    /\ UNCHANGED <<made, cache, loc, rv, outcome>> /\ DrvFrame

WithWindowGot ==
    /\ At("ww_got")
    /\ IF IsErr(ret[Drv]) THEN Return("err")
       ELSE /\ Call(Frame("fw", Top.w, 0), "ww_focused")
            /\ loc' = [loc EXCEPT !.open_window = ret[Drv][2]]
            /\ UNCHANGED <<rv, outcome>>
    /\ Quiet /\ UNCHANGED <<made, cache>> /\ DrvFrame

WithWindowFocused ==
    /\ At("ww_focused")
    /\ IF rv = "err" THEN Return("err") /\ Quiet
       ELSE Issue(SaveCommand, "ww_f") /\ rv' = "none" /\ UNCHANGED <<loc, outcome>>
    /\ UNCHANGED <<made, cache>> /\ DrvFrame

\* lines 228-229: keep res, focus the window that was open before
WithWindowRan ==
    /\ At("ww_f")
    /\ Call(Frame("fw", loc.open_window, 0), "ww_back")
    /\ loc' = [loc EXCEPT !.res = IF IsErr(ret[Drv]) THEN "err" ELSE "ok"]
    /\ Quiet /\ UNCHANGED <<made, cache, rv, outcome>> /\ DrvFrame

WithWindowBack ==
    /\ At("ww_back")
    /\ Return(IF rv = "err" THEN "err" ELSE loc.res)
    /\ Quiet /\ UNCHANGED <<made, cache>> /\ DrvFrame

\* ---- read_history, lines 136-153 ----
ReadEnter ==
    /\ At("rh")
    /\ Call(Frame("ww", HistoryTitle, 0), "rh_saved")
    /\ Quiet /\ UNCHANGED <<made, cache, loc, rv, outcome>> /\ DrvFrame

ReadSaved ==
    /\ At("rh_saved")
    /\ IF rv = "err" THEN Return("err")
       ELSE Goto("rh_wait") /\ rv' = "none" /\ UNCHANGED <<loc, outcome>>
    /\ Quiet /\ UNCHANGED <<made, cache>> /\ DrvFrame

\* lines 146-148: the file is not there yet, sleep 100 ms and look again
ReadPoll ==
    /\ At("rh_wait")
    /\ ~file
    /\ UNCHANGED vars

\* lines 146-152: once the file exists, read it (read_ok: it parses) and
\* remove it
ReadFile(read_ok) ==
    /\ At("rh_wait")
    /\ file
    /\ IF read_ok THEN Return("ok") /\ file' = FALSE
       ELSE Return("err") /\ UNCHANGED file
    /\ Quiet /\ UNCHANGED <<made, cache, focused, running, wf_open, aqVars, dfVars,
                            obsVars, timeVars>>

\* ---- aquire_duration, lines 70-135 ----
\* most exports one acquisition is followed through
MaxExports == 2

AquireEnter ==
    /\ At("aq")
    /\ Call(Frame("set", "", 1), "aq_applied")
    /\ Quiet /\ UNCHANGED <<made, cache, loc, rv, outcome>> /\ DrvFrame

\* a variant that goes to the export loop without starting the generator
AquireAppliedNoStart ==
    /\ At("aq_applied")
    /\ IF rv = "err" THEN Return("err")
       ELSE Goto("aq_wait") /\ rv' = "none" /\ UNCHANGED <<loc, outcome>>
    /\ Quiet /\ UNCHANGED <<made, cache>> /\ DrvFrame

AquireApplied ==
    /\ At("aq_applied")
    /\ IF rv = "err" THEN Return("err")
       ELSE Call(Frame("run", "", 1), "aq_started") /\ rv' = "none"
            /\ UNCHANGED <<loc, outcome>>
    /\ Quiet /\ UNCHANGED <<made, cache>> /\ DrvFrame

AquireStarted ==
    /\ At("aq_started")
    /\ IF rv = "err" THEN Return("err")
       ELSE Goto("aq_wait") /\ rv' = "none" /\ UNCHANGED <<loc, outcome>>
    /\ Quiet /\ UNCHANGED <<made, cache>> /\ DrvFrame

\* lines 89-102: the wait ends with aq_done as the clock says, then the export
AquireWaited(aq_done) ==
    /\ At("aq_wait")
    /\ (loc.exports + 1 >= MaxExports) => aq_done
    /\ Call(Frame("rh", "", 0), "aq_read")
    /\ loc' = [loc EXCEPT !.aq_done = aq_done]
    /\ Quiet /\ UNCHANGED <<made, cache, rv, outcome>> /\ DrvFrame

\* a variant that goes on with the next window when the export failed
AquireFoldedSkip(fold_ok) ==
    /\ At("aq_read")
    /\ (loc.exports = 0) => fold_ok
    /\ IF ~fold_ok
       THEN stack' = <<>> /\ rv' = "none" /\ outcome' = "panic" /\ loc' = NoLoc
       ELSE /\ Goto(IF loc.aq_done THEN "aq_trim" ELSE "aq_wait")
            /\ loc' = [loc EXCEPT !.exports = @ + 1]
            /\ rv' = "none" /\ UNCHANGED outcome
    /\ Quiet /\ UNCHANGED <<made, cache>> /\ DrvFrame

\* lines 102-110: fold the export (fold_ok: combine_datfiles did not panic)
AquireFolded(fold_ok) ==
    /\ At("aq_read")
    /\ (loc.exports = 0) => fold_ok
    /\ IF rv = "err" THEN Return("err")
       ELSE IF ~fold_ok
            THEN stack' = <<>> /\ rv' = "none" /\ outcome' = "panic" /\ loc' = NoLoc
            ELSE /\ Goto(IF loc.aq_done THEN "aq_trim" ELSE "aq_wait")
                 /\ loc' = [loc EXCEPT !.exports = @ + 1]
                 /\ rv' = "none" /\ UNCHANGED outcome
    /\ Quiet /\ UNCHANGED <<made, cache>> /\ DrvFrame

\* lines 111-134: trim (trim_ok: the series is long enough) and return
AquireTrim(trim_ok) ==
    /\ At("aq_trim")
    /\ IF trim_ok THEN Return("ok")
       ELSE stack' = <<>> /\ rv' = "none" /\ outcome' = "panic" /\ loc' = NoLoc
    /\ Quiet /\ UNCHANGED <<made, cache>> /\ DrvFrame

\* ---- the operations a program calls on the driver, one after the other ----
CallOp(frame, settings) ==
    /\ stack = <<>>
    /\ outcome # "panic"
    /\ pc[Drv] = "idle"
    /\ (frame.at # "new") => made
    /\ stack' = <<frame>>
    /\ loc' = [NoLoc EXCEPT !.settings = settings]
    /\ outcome' = "none"
    /\ Quiet /\ UNCHANGED <<made, cache, rv, aqVars, dfVars, envVars, timeVars>>

DriverCall(frame, settings) == CallOp(frame, settings) /\ UNCHANGED obsVars

\* new, apply_wavegen_settings, aquire_duration, start_wavegen, stop_wavegen
NewOp    == Frame("new", "", 0)
ApplyOp  == Frame("set", "", 1)
AquireOp == Frame("aq", "", 0)
StartOp  == Frame("run", "", 1)
StopOp   == Frame("run", "", 0)

Operations ==
    {NewOp, StartOp, StopOp, Frame("ww", HistoryTitle, 0)}
    \cup {Frame("fw", w, 0) : w \in Windows}

(***************************************************************************)
(* The relay with any number of concurrent callers and any HTTP client.    *)
(***************************************************************************)
RelayInit ==
    /\ pc = [c \in Callers |-> "idle"]
    /\ cmd = [c \in Callers |-> Cmd("wavegen_is_running", <<>>)]
    /\ chan = <<>>
    /\ oneshot = <<>>
    /\ reply = [c \in Callers |-> Unused]
    /\ poisoned = FALSE
    /\ resp = [c \in Callers |-> NoText]
    /\ ret = [c \in Callers |-> NoRet]
    /\ owed = <<>>
    /\ posted = [c \in Callers |-> NoText]
    /\ behind = [c \in Callers |-> FALSE]

Init == RelayInit /\ StitchIdle /\ DriverIdle

CallerExecute(c) == \E m \in CallerCommands : ExecStart(c, m)

\* what a step of the relay leaves alone
RelayFrame == UNCHANGED <<aqVars, dfVars, drvVars, envVars, obsVars, timeVars>>

Next ==
    \/ \E c \in Callers : CallerExecute(c) /\ RelayFrame
    \/ \E c \in Callers : ExecSend(c) /\ RelayFrame
    \/ \E c \in Callers : ExecRecv(c) /\ RelayFrame
    \/ Get /\ RelayFrame
    \/ \E b \in Bodies : Post(b) /\ RelayFrame
    \/ HandlerPanic /\ RelayFrame

Spec == Init /\ [][Next]_vars

(***************************************************************************)
(* Claims about the relay under Spec.                                      *)
(***************************************************************************)
\* C2: a submit (the channel send inside execute) started while an earlier
\* request is outstanding completes only once no earlier request is
\* outstanding any more, i.e. after that request was taken by a GET and
\* fulfilled by a POST.
C2_SecondSubmitBlocks ==
    [][\A c \in Callers :
          (pc[c] = "send" /\ pc'[c] = "recv" /\ behind[c]) => Outstanding = {}]_vars

\* C3: the reply slot of a submitted request stays awaiting until it is
\* fulfilled: no step (in particular no further GET) drops or replaces it.
C3_ReplySlotKept ==
    [][\A c \in Callers :
          (pc[c] = "recv" /\ reply[c] = Pending)
              => (reply'[c] = Pending \/ IsValue(reply'[c]))]_vars

\* C4: after a POST that found no reply slot awaiting, neither the relay
\* server nor any caller takes a further step.
C4_PostWithoutSlotAborts ==
    [][poisoned => UNCHANGED relayVars]_vars

(***************************************************************************)
(* The relay used the way the driver uses it: a new execute starts only    *)
(* after the previous one returned, and the agent POSTs once after each    *)
(* GET that returned a command (it may poll in between).                   *)
(***************************************************************************)
NoneExecuting == \A d \in Callers : pc[d] \notin {"send", "recv"}

SeqExecute(c) == NoneExecuting /\ CallerExecute(c)

AgentPost(b) == owed # <<>> /\ Post(b)

NextPaired ==
    \/ \E c \in Callers : SeqExecute(c) /\ RelayFrame
    \/ \E c \in Callers : ExecSend(c) /\ RelayFrame
    \/ \E c \in Callers : ExecRecv(c) /\ RelayFrame
    \/ Get /\ RelayFrame
    \/ \E b \in Bodies : AgentPost(b) /\ RelayFrame

SpecPaired == Init /\ [][NextPaired]_vars

\* C1: the text an execute call received is the body of the POST that
\* followed the GET which returned that call's command.
C1_Pairing ==
    \A c \in Callers : resp[c] # NoText => resp[c] = posted[c]

\* two calls have returned, each with its own, different, body
C1_Witness ==
    \E c, d \in Callers :
        /\ pc[c] = "idle" /\ pc[d] = "idle"
        /\ resp[c] # NoText /\ resp[d] # NoText /\ resp[c] # resp[d]
        /\ resp[c] = posted[c] /\ resp[d] = posted[d]

(***************************************************************************)
(* The relay with concurrent callers and an agent that keeps polling and   *)
(* answers each command it fetched with one well-formed result before it   *)
(* polls again.  Fairness: the tokio runtime polls every ready future, the *)
(* mpsc semaphore serves waiting senders in turn (SF), the agent keeps on. *)
(***************************************************************************)
\* the results the agent can report for a command
Answers(m) ==
    CASE RetType(m.command) = "bool" ->
             {<<"Ok", "True">>, <<"Ok", "False">>, <<"Err", "\"failed\"">>}
      [] RetType(m.command) = "string" ->
             {<<"Ok", Encoded(w)>> : w \in Windows} \cup {<<"Err", "\"failed\"">>}
      [] OTHER -> {<<"Ok", "null">>, <<"Err", "\"failed\"">>}

AgentGet == owed = <<>> /\ Get /\ RelayFrame

AgentAnswer == owed # <<>> /\ (\E b \in Answers(cmd[Head(owed)]) : Post(b)) /\ RelayFrame

LiveExecute(c) == CallerExecute(c) /\ RelayFrame

LiveSend(c) == ExecSend(c) /\ RelayFrame

LiveRecv(c) == ExecRecv(c) /\ RelayFrame

NextLive ==
    \/ \E c \in Callers : LiveExecute(c)
    \/ \E c \in Callers : LiveSend(c)
    \/ \E c \in Callers : LiveRecv(c)
    \/ AgentGet
    \/ AgentAnswer

SpecLive ==
    /\ Init
    /\ [][NextLive]_vars
    /\ WF_vars(AgentGet)
    /\ WF_vars(AgentAnswer)
    /\ \A c \in Callers : SF_vars(LiveSend(c)) /\ WF_vars(LiveRecv(c))

\* C5: every execute call eventually returns when the agent keeps polling and
\* answering, and a call leaves its suspension point only after a POST for
\* its command (there is no timeout and no local failure).
C5_ReturnsOnlyByPost ==
    /\ \A c \in Callers : (pc[c] \in {"send", "recv"}) ~> (pc[c] = "idle")
    /\ [][\A c \in Callers :
             (pc[c] = "recv" /\ pc'[c] # "recv") => posted[c] # NoText]_vars

\* a call that had to queue behind another one has returned with its answer
C5_Witness ==
    \E c \in Callers :
        pc[c] = "idle" /\ behind[c] /\ resp[c] # NoText /\ resp[c] = posted[c]

(***************************************************************************)
(* Aquisition::combine applied to every pair of windows within the bounds. *)
(***************************************************************************)
InitCombine ==
    /\ RelayInit
    /\ DriverIdle
    /\ DfIdle
    /\ aq_self \in {MkAquisition(w, [settings |-> "s1", sample_period_ms |-> 10]) :
                        w \in WindowsUpTo(MaxLenSelf)}
    /\ aq_other \in {MkAquisition(w, m) : w \in WindowsUpTo(MaxLenOther), m \in Metas}
    /\ aq_out = NotRun

SpecCombine == InitCombine /\ [][DoCombine]_vars

AqChannels == {"probe", "current", "voltage"}

\* 1-based indices of other that equal self's last sample in all three channels
SimulMatches(self, other) ==
    {i \in 1 .. Len(other.probe) :
        \A ch \in AqChannels : other[ch][i] = self[ch][Len(self[ch])]}

\* other's first k samples repeat self's last k samples on every channel
Overlaps(self, other, k) ==
    /\ k > 0 /\ k <= Len(self.probe) /\ k <= Len(other.probe)
    /\ \A ch \in AqChannels : \A i \in 1 .. k :
           other[ch][i] = self[ch][Len(self[ch]) - k + i]

SameMeta(self, other) ==
    /\ self.wavegen_settings = other.wavegen_settings
    /\ self.sample_period_ms = other.sample_period_ms

\* C7: on an unambiguous overlap of k samples combine succeeds and yields
\* self's samples followed by other's samples after the overlap index.
C7_CombineUnambiguous ==
    \A k \in 1 .. MaxLenOther :
        (/\ aq_out # NotRun
         /\ SameMeta(aq_self, aq_other)
         /\ Overlaps(aq_self, aq_other, k)
         /\ Cardinality(SimulMatches(aq_self, aq_other)) = 1)
        => /\ aq_out.status = "ok"
           /\ \A ch \in AqChannels :
                  /\ Len(aq_out[ch]) = Len(aq_self[ch]) + Len(aq_other[ch]) - k
                  /\ aq_out[ch] = aq_self[ch] \o Skip(aq_other[ch], k)

\* C9: combine panics whenever two or more indices of other equal self's
\* last sample in all channels at once.
C9_AmbiguousPanics ==
    (/\ aq_out # NotRun
     /\ aq_self.probe # <<>>
     /\ Cardinality(SimulMatches(aq_self, aq_other)) >= 2)
    => aq_out = Panicked

\* combine has run on windows of equal settings with two candidate indices
C9_Witness ==
    /\ aq_out = Panicked
    /\ SameMeta(aq_self, aq_other)
    /\ aq_self.probe # <<>>
    /\ Cardinality(SimulMatches(aq_self, aq_other)) >= 2

\* C19: when combine succeeds, the index it appends after is one at which
\* other's probe, current and voltage all equal self's last probe, current
\* and voltage.
C19_IndexMatchesAllChannels ==
    aq_out.status = "ok" => (aq_out.ind + 1) \in SimulMatches(aq_self, aq_other)

(***************************************************************************)
(* The fold of aquire_duration applied to every pair of exports.           *)
(***************************************************************************)
InitFold ==
    /\ RelayInit
    /\ DriverIdle
    /\ AqIdle
    /\ df_a \in SignalsUpTo(SignalNames, MaxLenDat)
    /\ df_b \in SignalsUpTo(SignalNames, MaxLenDat) \cup SignalsUpTo(OtherNames, 1)
    /\ df_acc = DatNone

SpecFold == InitFold /\ [][AquireFold]_vars

SignalLen(f) == Len(f[CHOOSE key \in DOMAIN f : TRUE])

\* 1-based indices of b that equal a's last sample in all signals
DatMatches(a, b) ==
    {i \in 1 .. SignalLen(b) : \A key \in DOMAIN a : b[key][i] = a[key][Len(a[key])]}

\* b's first k samples repeat a's last k samples on every signal
DatOverlaps(a, b, k) ==
    /\ k > 0 /\ k <= SignalLen(a) /\ k <= SignalLen(b)
    /\ \A key \in DOMAIN a : \A i \in 1 .. k :
           b[key][i] = a[key][Len(a[key]) - k + i]

\* C8: on an unambiguous overlap of k samples the fold appends exactly b's
\* samples after the overlap index to every signal of a.
C8_FoldUnambiguous ==
    \A k \in 1 .. MaxLenDat :
        (/\ df_acc # DatNone
         /\ DOMAIN df_a = DOMAIN df_b
         /\ DatOverlaps(df_a, df_b, k)
         /\ Cardinality(DatMatches(df_a, df_b)) = 1)
        => /\ df_acc.status = "ok"
           /\ \A key \in DOMAIN df_a :
                  /\ Len(df_acc.signals[key]) = Len(df_a[key]) + Len(df_b[key]) - k
                  /\ df_acc.signals[key] = df_a[key] \o Skip(df_b[key], k)

\* C10: the fold fails whenever two or more indices of the new export match
\* the accumulator's last sample in all signals.
C10_AmbiguousFoldFails ==
    (/\ df_acc # DatNone
     /\ DOMAIN df_a = DOMAIN df_b
     /\ SignalLen(df_a) > 0
     /\ Cardinality(DatMatches(df_a, df_b)) >= 2)
    => df_acc.status = "panic"

(***************************************************************************)
(* The driver running its operations one after the other against the       *)
(* relay, with an agent that polls, runs the command it fetched on the     *)
(* desktop and posts the result.                                           *)
(***************************************************************************)
Failed == <<"Err", "\"failed\"">>

Bool(b) == IF b THEN "True" ELSE "False"

\* what the agent's flow does for a command: the result text and the desktop
\* afterwards; any command may also fail and leave the desktop as it was, and
\* a save may report success although no file appears
AgentRuns(m) ==
    LET same == [focused |-> focused, running |-> running, file |-> file]
        out(payload, env) == [text |-> <<"Ok", payload>>, env |-> env]
        title == IF m.args # <<>> THEN m.args[1] ELSE ""
    IN  {[text |-> Failed, env |-> same]} \cup
        CASE m.command = "is_window_open" ->
                 {out(Bool(title # WaveFormsTitle \/ wf_open), same)}
          [] m.command = "get_open_window" -> {out(Encoded(focused), same)}
          [] m.command = "focus_window" ->
                 IF title = WaveFormsTitle /\ ~wf_open THEN {}
                 ELSE {out("null", [same EXCEPT !.focused = title])}
          [] m.command = "wavegen_is_running" -> {out(Bool(running), same)}
          [] m.command = "wavegen_toggle_running" ->
                 {out("null", [same EXCEPT !.running = ~running])}
          [] m.command = "nanonis_save_history" ->
                 {out("null", [same EXCEPT !.file = TRUE]), out("null", same)}
          [] OTHER -> {out("null", same)}

DriverFrame == UNCHANGED <<aqVars, dfVars, drvVars, timeVars>>

DrvGet == owed = <<>> /\ Get /\ DriverFrame /\ UNCHANGED <<envVars, obsVars>>

DrvAnswer ==
    /\ owed # <<>>
    /\ \E o \in AgentRuns(cmd[Head(owed)]) :
          /\ Post(o.text)
          /\ focused' = o.env.focused
          /\ running' = o.env.running
          /\ file' = o.env.file
    /\ UNCHANGED <<wf_open, obsVars>>
    /\ DriverFrame

DrvSend(c) == ExecSend(c) /\ DriverFrame /\ UNCHANGED <<envVars, obsVars>>

DrvRecv(c) == ExecRecv(c) /\ DriverFrame /\ UNCHANGED <<envVars, obsVars>>

InitDriver ==
    /\ RelayInit
    /\ StitchIdle
    /\ ObsIdle /\ TimeIdle
    /\ made = FALSE /\ cache = NoCache /\ stack = <<>> /\ loc = NoLoc
    /\ rv = "none" /\ outcome = "none"
    /\ focused \in Windows
    /\ running \in BOOLEAN
    /\ wf_open \in BOOLEAN
    /\ file = FALSE

NextDriver ==
    \/ \E fr \in Operations : DriverCall(fr, DefaultSettings)
    \/ \E st \in SettingsSet : DriverCall(ApplyOp, st)
    \/ \E st \in SettingsSet : DriverCall(AquireOp, st)
    \/ NewEnter \/ NewOpen \/ NewTrapezium
    \/ SetterEnter \/ SetterDone
    \/ FocusEnter \/ FocusGot \/ FocusSet
    \/ RunEnter \/ RunFocused \/ RunState \/ RunToggled
    \/ WithWindowEnter \/ WithWindowGot \/ WithWindowFocused
    \/ WithWindowRan \/ WithWindowBack
    \/ ReadEnter \/ ReadSaved \/ ReadPoll \/ \E ok \in BOOLEAN : ReadFile(ok)
    \/ AquireEnter \/ AquireApplied \/ AquireStarted
    \/ \E done \in BOOLEAN : AquireWaited(done)
    \/ \E ok \in BOOLEAN : AquireFolded(ok)
    \/ \E ok \in BOOLEAN : AquireTrim(ok)
    \/ \E c \in Callers : DrvSend(c)
    \/ \E c \in Callers : DrvRecv(c)
    \/ DrvGet
    \/ DrvAnswer

SpecDriver == InitDriver /\ [][NextDriver]_vars

\* executes that have started and not returned
InFlight == {c \in Callers : pc[c] \in {"send", "recv"}}

\* commands queued in the channel or handed out and not yet answered
Unanswered == Len(chan) + Len(oneshot)

\* C6: in every state of any sequence of driver operations at most one remote
\* command is outstanding, and the driver starts an execute only when none is
\* in flight.
C6_OneCommandAtATime ==
    /\ Cardinality(InFlight) <= 1
    /\ Unanswered <= 1
    /\ Cardinality(Outstanding) <= 1

\* inside aquire_duration, the second export's save command is handed out
C6_Witness ==
    /\ Len(stack) >= 3
    /\ stack[Len(stack)].at = "aq_read"
    /\ loc.exports >= 1
    /\ oneshot = <<Drv>>
    /\ cmd[Drv] = SaveCommand

(***************************************************************************)
(* The driver watched from outside: which operation the program called,    *)
(* which commands reached the relay during it and how each was answered.   *)
(***************************************************************************)
FieldOf(name) ==
    CASE name = "wavegen_set_amplitude" -> "pkpk"
      [] name = "wavegen_set_period"    -> "period"
      [] name = "wavegen_set_offset"    -> "offset"
      [] name = "wavegen_set_symmetry"  -> "symmetry"
      [] OTHER -> "none"

\* the setting whose set-command failed in an apply_wavegen_settings
Refused ==
    IF /\ call.frame.at = "set"
       /\ log # <<>>
       /\ log[Len(log)].result = "Err"
    THEN FieldOf(log[Len(log)].cmd.command)
    ELSE "none"

WatchedCall(frame, settings) ==
    /\ CallOp(frame, settings)
    /\ call' = [frame |-> frame, settings |-> settings, outcome |-> "none",
                refused |-> "none"]
    /\ prev' = [call EXCEPT !.outcome = outcome, !.refused = Refused]
    /\ log' = <<>>
    /\ UNCHANGED acked

WatchedSend(c) ==
    /\ ExecSend(c) /\ DriverFrame /\ UNCHANGED envVars
    /\ log' = Append(log, [cmd |-> cmd[c], result |-> "none"])
    /\ UNCHANGED <<call, prev, acked>>

WatchedRecv(c) ==
    /\ ExecRecv(c) /\ DriverFrame /\ UNCHANGED envVars
    /\ log' = [log EXCEPT ![Len(log)].result = ret'[c][1]]
    /\ acked' = IF FieldOf(cmd[c].command) # "none" /\ ret'[c][1] = "Ok"
                THEN [acked EXCEPT ![FieldOf(cmd[c].command)] = cmd[c].args]
                ELSE acked
    /\ UNCHANGED <<call, prev>>

\* names of the commands sent since the last call
Sent == {log[i].cmd.command : i \in 1 .. Len(log)}

HowOften(name) == Cardinality({i \in 1 .. Len(log) : log[i].cmd.command = name})

\* the operation called last has returned
Returned == stack = <<>> /\ call # NoCall

(***************************************************************************)
(* apply_wavegen_settings called again and again on one driver.            *)
(***************************************************************************)
NextApply ==
    \/ WatchedCall(NewOp, DefaultSettings)
    \/ \E st \in SettingsSet : WatchedCall(ApplyOp, st)
    \/ NewEnter \/ NewOpen \/ NewTrapezium
    \/ SetterEnter \/ SetterDone
    \/ \E c \in Callers : WatchedSend(c)
    \/ \E c \in Callers : WatchedRecv(c)
    \/ DrvGet
    \/ DrvAnswer

SpecApply == InitDriver /\ [][NextApply]_vars

\* the fields in which two settings differ
Differing(s, t) == {Fields[i] : i \in {j \in 1 .. Len(Fields) : Wanted(s, Fields[j]) # Wanted(t, Fields[j])}}

\* C11: when apply_wavegen_settings(t) follows a successful
\* apply_wavegen_settings(s) on the same driver, a set-command is issued for
\* exactly the fields in which t differs from s, each once; so applying the
\* same settings again issues no command at all.
C11_IdempotentApply ==
    (/\ call.frame.at = "set"
     /\ prev.frame.at = "set"
     /\ prev.outcome = "ok")
    => /\ {FieldOf(name) : name \in Sent} \subseteq Differing(prev.settings, call.settings)
       /\ \A name \in Sent : HowOften(name) = 1
       /\ (Returned /\ outcome = "ok")
              => {FieldOf(name) : name \in Sent} = Differing(prev.settings, call.settings)

\* positions in the log of the commands answered with a remote error
Errors == {i \in 1 .. Len(log) : log[i].result = "Err"}

\* the last command the relay received, and how it was answered
LastSent == log[Len(log)]

\* the cache holds, for every setting it has a value for, the value of the
\* last set-command the generator answered Ok
CacheAcked ==
    \A i \in 1 .. Len(Fields) :
        cache[Fields[i]] # <<>>
        => SetCommand(Fields[i], cache[Fields[i]][1]).args = acked[Fields[i]]

\* the step caches the value of the set-command just answered Ok
CachesAcked ==
    /\ At("set_sent")
    /\ LastSent.result = "Ok"
    /\ \E i \in 1 .. Len(Fields) :
          /\ LastSent.cmd = SetCommand(Fields[i], Wanted(call.settings, Fields[i]))
          /\ cache' = [cache EXCEPT ![Fields[i]] = <<Wanted(call.settings, Fields[i])>>]

\* C23: a cached setting changes only when its set-command was answered Ok;
\* after a failed set-command the cache is as before, nothing more is sent in
\* that apply_wavegen_settings, which returns Err, and the next
\* apply_wavegen_settings with the same settings starts by sending the failed
\* command again; between set-commands every cached value is the value of
\* the last set-command the generator answered Ok.
C23_CacheOnlyOnSuccess ==
    /\ [](~At("set_sent") => CacheAcked)
    /\ [](call.frame.at = "set" /\ Errors # {}
            => /\ Errors = {Len(log)}
               /\ Returned => outcome = "err")
    /\ [](/\ call.frame.at = "set"
           /\ prev.refused # "none"
           /\ prev.settings = call.settings
           => /\ Returned => log # <<>>
              /\ log # <<>> => log[1].cmd = SetCommand(prev.refused,
                                              Wanted(call.settings, prev.refused)))
    /\ [][cache' # cache => (At("new_trap") \/ CachesAcked)]_vars

\* an apply_wavegen_settings that failed on a set-command was called again
\* with the same settings and went through
C23_Witness ==
    /\ call.frame.at = "set"
    /\ prev.refused # "none"
    /\ prev.settings = call.settings
    /\ Returned /\ outcome = "ok"
    /\ cache[prev.refused] = <<Wanted(call.settings, prev.refused)>>
    /\ Len(log) > 1

(***************************************************************************)
(* start_wavegen and stop_wavegen called in any order on one driver.       *)
(***************************************************************************)
NextRun ==
    \/ WatchedCall(NewOp, DefaultSettings)
    \/ \E op \in {StartOp, StopOp} : WatchedCall(op, DefaultSettings)
    \/ NewEnter \/ NewOpen \/ NewTrapezium
    \/ FocusEnter \/ FocusGot \/ FocusSet
    \/ RunEnter \/ RunFocused \/ RunState \/ RunToggled
    \/ \E c \in Callers : WatchedSend(c)
    \/ \E c \in Callers : WatchedRecv(c)
    \/ DrvGet
    \/ DrvAnswer

SpecRun == InitDriver /\ [][NextRun]_vars

\* the driver starts the execute of command name in this step
Issues(name) == pc[Drv] = "idle" /\ pc'[Drv] = "send" /\ cmd'[Drv].command = name

\* start_wavegen or stop_wavegen is the operation called last
InRun == call.frame.at = "run"

Desired == call.frame.f = 1

\* C12: in start_wavegen / stop_wavegen the focus command is issued only while
\* another window than the generator's is focused; the run state is queried
\* and toggled only with the generator's window focused; the toggle is issued
\* at most once and only while the run state is not the desired one; after a
\* successful call the run state is the desired one; and the same call
\* right after a successful one issues no toggle.
C12_StartStop ==
    /\ [](InRun =>
            /\ HowOften("wavegen_toggle_running") <= 1
            /\ HowOften("focus_window") <= 1
            /\ (Returned /\ outcome = "ok") => (running <=> Desired)
            /\ (prev.frame = call.frame /\ prev.outcome = "ok")
                   => "wavegen_toggle_running" \notin Sent)
    /\ [][InRun =>
            /\ Issues("focus_window") => focused # WaveFormsTitle
            /\ Issues("wavegen_is_running") => focused = WaveFormsTitle
            /\ Issues("wavegen_toggle_running")
                   => (focused = WaveFormsTitle /\ running # Desired)]_vars

\* a start_wavegen that had to focus the generator's window and to toggle
C12_Witness ==
    /\ InRun /\ Desired /\ Returned /\ outcome = "ok"
    /\ Sent = {"get_open_window", "focus_window", "wavegen_is_running",
               "wavegen_toggle_running"}
    /\ running

(***************************************************************************)
(* The export loop of aquire_duration on a clock, lines 77-110. Time is in *)
(* milliseconds; the loop polls once a second (line 99); the commands and  *)
(* the read-back of an export take up to a poll step each.                 *)
(***************************************************************************)
NANONIS_WINDOW_S == 125
NANONIS_WINDOW_BUFFER_S == 5

\* line 99: Duration::from_millis(1000)
POLL_MS == 1000

\* lines 78-79: Duration::from_secs_f64
Millis(secs) == secs * 1000

\* time from line 101 to the agent getting nanonis_save_history: the
\* get_open_window of with_window, the get_open_window and focus_window of
\* focus_window and the save command itself, none or all a poll step long
PreLatency == {0, 4 * POLL_MS}

\* time from there to the return of read_history: the read-back of the file
\* and the two commands of the focus-back
PostLatency == {0, POLL_MS \div 2, 3 * POLL_MS}

\* no export was triggered yet
NoTrigger == -1

\* longest requested duration, in seconds
MaxDuration == 300

\* lines 80-86, with the clock at 0 when aquire_duration reads it
SchedStart(duration) ==
    [at |-> "poll", duration |-> duration, now |-> 0,
     aq_end_time |-> Millis(duration) + Millis(NANONIS_WINDOW_BUFFER_S),
     window_end_time |-> Millis(NANONIS_WINDOW_S),
     since |-> 0, waits |-> <<>>, folds |-> 0, aq_done |-> FALSE,
     trigger |-> NoTrigger, gap |-> NoTrigger]

\* lines 90-91: SystemTime::elapsed() is Ok from the instant itself on
AqDone == sched.now >= sched.aq_end_time
WindowDone == sched.now >= sched.window_end_time

SchedFrame ==
    UNCHANGED <<relayVars, histVars, aqVars, dfVars, drvVars, envVars, obsVars, trim>>

\* lines 92-99: neither is over, sleep a second
SchedSleep ==
    /\ sched.at = "poll"
    /\ ~(WindowDone \/ AqDone)
    /\ sched' = [sched EXCEPT !.now = @ + POLL_MS]
    /\ SchedFrame

\* a variant that gives the next window the whole instrument window
SchedBreakNoBuffer ==
    /\ sched.at = "poll"
    /\ WindowDone \/ AqDone
    /\ sched' = [sched EXCEPT !.at = "read",
                              !.aq_done = AqDone,
                              !.waits = Append(@, sched.now - sched.since),
                              !.window_end_time = sched.now + Millis(NANONIS_WINDOW_S)]
    /\ SchedFrame

\* lines 92-93 and 101: leave the wait, set the next window's end
SchedBreak ==
    /\ sched.at = "poll"
    /\ WindowDone \/ AqDone
    /\ sched' = [sched EXCEPT !.at = "read",
                              !.aq_done = AqDone,
                              !.waits = Append(@, sched.now - sched.since),
                              !.window_end_time =
                                  sched.now + Millis(NANONIS_WINDOW_S)
                                            - Millis(NANONIS_WINDOW_BUFFER_S)]
    /\ SchedFrame

\* lines 102-110: export, seed or fold the accumulator, loop unless aq_done
SchedRead ==
    /\ sched.at = "read"
    /\ \E pre \in PreLatency, post \in PostLatency :
          sched' = [sched EXCEPT !.at = IF sched.aq_done THEN "trim" ELSE "poll",
                                 !.folds = IF Len(sched.waits) > 1 THEN @ + 1 ELSE @,
                                 !.trigger = sched.now + pre,
                                 !.gap = IF sched.trigger = NoTrigger THEN NoTrigger
                                         ELSE sched.now + pre - sched.trigger,
                                 !.now = @ + pre + post,
                                 !.since = sched.now + pre + post]
    /\ SchedFrame

InitSched ==
    /\ RelayInit /\ StitchIdle
    /\ ObsIdle
    /\ made = FALSE /\ cache = NoCache /\ stack = <<>> /\ loc = NoLoc
    /\ rv = "none" /\ outcome = "none"
    /\ focused = OtherTitle /\ running = FALSE /\ wf_open = TRUE /\ file = FALSE
    /\ trim = NoTrim
    /\ sched \in {SchedStart(d) : d \in 0 .. MaxDuration}

NextSched == SchedSleep \/ SchedBreak \/ SchedRead

SpecSched == InitSched /\ [][NextSched]_vars

\* C13: a 300 s acquisition makes exactly 3 exports, after waits of 125 s,
\* 125 s and 50 s plus the buffer, and folds the 2nd and the 3rd.
C13_Schedule300 ==
    (sched.at = "trim" /\ sched.duration = 300)
    => /\ sched.waits = <<Millis(NANONIS_WINDOW_S), Millis(NANONIS_WINDOW_S),
                          Millis(50 + NANONIS_WINDOW_BUFFER_S)>>
       /\ sched.folds = 2

\* C21: the time between two consecutive export triggers is less than the
\* instrument window, for every requested duration.
C21_ExportsOverlap ==
    sched.at # "idle" /\ sched.gap # NoTrigger
    => sched.gap < Millis(NANONIS_WINDOW_S)

\* a second export triggered more than the window less the buffer after
\* the first, its commands having taken their time
C21_Witness ==
    /\ sched.at = "poll"
    /\ Len(sched.waits) = 2
    /\ sched.gap > Millis(NANONIS_WINDOW_S) - Millis(NANONIS_WINDOW_BUFFER_S)

\* lines 77 and 88: num_aqs.ceil(), the total of the progress message
NumAqsCeil(duration) ==
    (duration + NANONIS_WINDOW_S - 1) \div NANONIS_WINDOW_S

\* C22: aquire_duration performs at least one export and at most
\* ceil(duration / 125 s) of them, the total its progress message shows.
C22_ExportCountBound ==
    /\ sched.at = "trim" => Len(sched.waits) >= 1
    /\ sched.at # "idle" => Len(sched.waits) <= NumAqsCeil(sched.duration)

(***************************************************************************)
(* The trimming of aquire_duration, lines 112-121.                         *)
(***************************************************************************)
\* most samples of the accumulated series, longest requested duration (ms)
\* and longest sample period (ms) drawn as inputs
MaxSamples == 4
MaxTrimMs  == 6
MaxPeriodMs == 3

\* line 118: (duration.as_secs_f64() * 1000. / sample_period) as usize; the
\* cast drops the fraction
KeptCount(duration_ms, period_ms) == duration_ms \div period_ms

\* lines 114-121: Err where signal_len - count underflows
TrimSignals(signals, duration_ms, period_ms) ==
    LET signal_len == Len(signals[CHOOSE key \in DOMAIN signals : TRUE])
        count == KeptCount(duration_ms, period_ms)
    IN  IF count > signal_len THEN [status |-> "panic", signals |-> signals]
        ELSE [status |-> "ok",
              signals |-> [key \in DOMAIN signals |->
                              Skip(signals[key], signal_len - count)]]

\* the accumulated series: every signal holds the samples 1, 2, .., n
Series(n) == [key \in SignalNames |-> [k \in 1 .. n |-> k]]

TrimFrame ==
    UNCHANGED <<relayVars, histVars, aqVars, dfVars, drvVars, envVars, obsVars, sched>>

DoTrim ==
    /\ trim.at = "start"
    /\ trim' = [trim EXCEPT !.at = "done",
                            !.out = TrimSignals(trim.signals, trim.duration_ms,
                                                trim.period_ms)]
    /\ TrimFrame

InitTrim ==
    /\ RelayInit /\ StitchIdle
    /\ ObsIdle
    /\ made = FALSE /\ cache = NoCache /\ stack = <<>> /\ loc = NoLoc
    /\ rv = "none" /\ outcome = "none"
    /\ focused = OtherTitle /\ running = FALSE /\ wf_open = TRUE /\ file = FALSE
    /\ sched = NoSched
    /\ trim \in {[at |-> "start", signals |-> Series(n), duration_ms |-> d,
                  period_ms |-> p, out |-> [status |-> "none", signals |-> Series(0)]] :
                     n \in 1 .. MaxSamples, d \in 0 .. MaxTrimMs, p \in 1 .. MaxPeriodMs}

SpecTrim == InitTrim /\ [][DoTrim]_vars

\* round to the nearest whole number, halves upwards
Round(a, b) == (2 * a + b) \div (2 * b)

\* C14: when the requested duration is shorter than the collected time, every
\* signal of the result holds exactly round(duration_ms / sample_period_ms)
\* samples, the last ones of the accumulated series in order.
C14_TrimKeepsRounded ==
    (/\ trim.at = "done"
     /\ trim.duration_ms
            < Len(trim.signals["Current (A)"]) * trim.period_ms)
    => /\ trim.out.status = "ok"
       /\ \A key \in SignalNames :
             LET sig == trim.signals[key]
                 n == Round(trim.duration_ms, trim.period_ms)
             IN  /\ Len(trim.out.signals[key]) = n
                 /\ trim.out.signals[key] = Skip(sig, Len(sig) - n)

(***************************************************************************)
(* Acquisition sessions: new, then aquire_duration again and again.        *)
(***************************************************************************)
NextSession ==
    \/ WatchedCall(NewOp, DefaultSettings)
    \/ \E st \in SettingsSet : WatchedCall(AquireOp, st)
    \/ NewEnter \/ NewOpen \/ NewTrapezium
    \/ SetterEnter \/ SetterDone
    \/ FocusEnter \/ FocusGot \/ FocusSet
    \/ RunEnter \/ RunFocused \/ RunState \/ RunToggled
    \/ WithWindowEnter \/ WithWindowGot \/ WithWindowFocused
    \/ WithWindowRan \/ WithWindowBack
    \/ ReadEnter \/ ReadSaved \/ ReadPoll \/ \E ok \in BOOLEAN : ReadFile(ok)
    \/ AquireEnter \/ AquireApplied \/ AquireStarted
    \/ \E done \in BOOLEAN : AquireWaited(done)
    \/ \E ok \in BOOLEAN : AquireFolded(ok)
    \/ \E ok \in BOOLEAN : AquireTrim(ok)
    \/ \E c \in Callers : WatchedSend(c)
    \/ \E c \in Callers : WatchedRecv(c)
    \/ DrvGet
    \/ DrvAnswer

SpecSession == InitDriver /\ [][NextSession]_vars

InSession == call.frame.at = "aq"


\* C15: once a remote command of aquire_duration was answered with an error,
\* no export is triggered any more (the only commands that may still go out
\* put the focus back, lines 229 and 215-217), and aquire_duration returns a
\* failure, never a series.
C15_FailFast ==
    (InSession /\ Errors # {})
    => /\ \A i \in 1 .. Len(log) :
             (\E e \in Errors : e < i)
                 => log[i].cmd.command \in {"get_open_window", "focus_window"}
       /\ outcome \in {"none", "err"}
       /\ Returned => outcome = "err"

\* an export failed in the second window and aquire_duration returned Err
C15_Witness ==
    /\ InSession /\ Returned /\ outcome = "err"
    /\ HowOften("nanonis_save_history") = 2
    /\ \E e \in Errors : log[e].cmd.command = "nanonis_save_history"

\* the driver's task and the agent keep running: a step that can be taken is
\* taken
SpecSessionFair == SpecSession /\ WF_vars(NextSession)

\* C16: when the export file does not appear after the save command
\* succeeded, read_history stops waiting and the acquisition returns a
\* failure.
C16_MissingFileFails ==
    (At("rh_wait") /\ ~file) ~> (file \/ (Returned /\ outcome = "err"))

(***************************************************************************)
(* AquisitionDriver::new while the WaveForms window is not open.           *)
(***************************************************************************)
InNew == call.frame = NewOp

\* C17 as stated: new fails without any remote command having been issued.
C17_FailsBeforeAnyCommand ==
    (InNew /\ ~wf_open) => (log = <<>> /\ (Returned => outcome = "err"))

\* C17: new fails having issued the is_window_open query and nothing else;
\* in particular wavegen_set_trapezium is never sent and no driver is made.
C17_FailsAfterQueryOnly ==
    (InNew /\ ~wf_open)
    => /\ Sent \subseteq {"is_window_open"}
       /\ HowOften("is_window_open") <= 1
       /\ ~made
       /\ Returned => outcome = "err"

\* new has failed on the agent's answer that the window is not open
C17_Witness ==
    /\ InNew /\ ~wf_open /\ Returned /\ outcome = "err"
    /\ Len(log) = 1
    /\ log[1].cmd = Cmd("is_window_open", <<WaveFormsTitle, "">>)
    /\ log[1].result = "Ok"

(***************************************************************************)
(* The order of an acquisition session.                                    *)
(***************************************************************************)
SetCommands == {"wavegen_set_amplitude", "wavegen_set_period", "wavegen_set_offset",
                "wavegen_set_symmetry"}

\* positions in the log of the exports triggered
Exports == {i \in 1 .. Len(log) : log[i].cmd.command = "nanonis_save_history"}

\* every setting of the session is the one last applied with success
SettingsApplied ==
    \A i \in 1 .. Len(Fields) : cache[Fields[i]] = <<Wanted(call.settings, Fields[i])>>

\* settings first, then the start of the generator, then the exports: every
\* settings command precedes the run-state query, which precedes every
\* export, and all of them were answered Ok before the first export
InOrder ==
    /\ \A i \in 1 .. Len(log) : \A j \in 1 .. Len(log) :
          /\ (log[i].cmd.command \in SetCommands
                 /\ log[j].cmd.command = "wavegen_is_running") => i < j
          /\ (log[i].cmd.command \in {"wavegen_is_running", "wavegen_toggle_running"}
                 /\ j \in Exports) => (i < j /\ log[i].result = "Ok")
          /\ (log[i].cmd.command \in SetCommands /\ j \in Exports)
                 => log[i].result = "Ok"
    /\ HowOften("wavegen_is_running") <= 1
    /\ Exports # {} => HowOften("wavegen_is_running") = 1

SessionOrder ==
    /\ [](InSession => InOrder /\ ((Returned /\ outcome = "ok") => Exports # {}))
    /\ [][(InSession /\ Issues("nanonis_save_history"))
              => (SettingsApplied /\ running)]_vars

\* C18 as stated: the session keeps the order Idle, SettingsApplied, Running,
\* exports, and a completed session ends with the generator stopped.
C18_SessionEndsStopped ==
    /\ SessionOrder
    /\ []((InSession /\ Returned /\ outcome = "ok") => ~running)

\* C18: the session keeps the order Idle, SettingsApplied, Running, exports,
\* and a completed session leaves the generator running.
C18_SessionLeavesRunning ==
    /\ SessionOrder
    /\ []((InSession /\ Returned /\ outcome = "ok") => running)

\* a session of two exports that had to start the generator has completed
C18_Witness ==
    /\ InSession /\ Returned /\ outcome = "ok"
    /\ Cardinality(Exports) = 2
    /\ "wavegen_toggle_running" \in Sent
    /\ Sent \cap SetCommands # {}
    /\ running

(***************************************************************************)
(* Successive folds: the result of a fold is the accumulator of the next.  *)
(***************************************************************************)
\* longest window fed to a further fold, and the accumulator length up to
\* which a further window is fed
MaxLenFeed == 2
MaxLenAcc  == 3

\* the synchronous samples of the windows folded one after the other
FoldSamples == {<<0, 0, 0>>, <<0, 1, 0>>, <<1, 1, 1>>}

FoldWindows(n) == UNION {[1 .. k -> FoldSamples] : k \in 0 .. n}

FoldMeta == [settings |-> "s1", sample_period_ms |-> 10]

StitchFrame == UNCHANGED <<relayVars, histVars, drvVars, envVars, obsVars, timeVars>>

\* acc = acc.combine(next): combine returns self, line 79
AqFeed ==
    /\ aq_out.status = "ok"
    /\ Len(aq_out.probe) <= MaxLenAcc
    /\ aq_self' = [aq_self EXCEPT !.probe = aq_out.probe,
                                  !.current = aq_out.current,
                                  !.voltage = aq_out.voltage]
    /\ aq_other' \in {MkAquisition(w, FoldMeta) : w \in FoldWindows(MaxLenFeed)}
    /\ aq_out' = NotRun
    /\ UNCHANGED dfVars /\ StitchFrame

\* power_automate.rs lines 102-104: the next export is folded into Some(df)
DfFeed ==
    /\ df_acc.status = "ok"
    /\ \A key \in DOMAIN df_acc.signals : Len(df_acc.signals[key]) <= MaxLenAcc
    /\ df_a' = df_acc.signals
    /\ df_b' \in SignalsUpTo(SignalNames, MaxLenFeed)
    /\ df_acc' = DatNone
    /\ UNCHANGED aqVars /\ StitchFrame

InitFolds ==
    /\ RelayInit
    /\ DriverIdle
    /\ \/ /\ DfIdle
          /\ aq_self \in {MkAquisition(w, FoldMeta) : w \in FoldWindows(MaxLenSelf)}
          /\ aq_other \in {MkAquisition(w, FoldMeta) : w \in FoldWindows(MaxLenFeed)}
          /\ aq_out = NotRun
       \/ /\ AqIdle
          /\ df_a \in SignalsUpTo(SignalNames, MaxLenSelf)
          /\ df_b \in SignalsUpTo(SignalNames, MaxLenFeed)
          /\ df_acc = DatNone

NextFolds == DoCombine \/ AquireFold \/ AqFeed \/ DfFeed

SpecFolds == InitFolds /\ [][NextFolds]_vars

\* all channels of a merged series have the same length
EqualLength(f, names) == \A m \in names : \A n \in names : Len(f[m]) = Len(f[n])

\* C20: after every successful fold, however many came before, all channels
\* of the accumulated series have equal length (combine and combine_datfiles).
C20_EqualLengthKept ==
    /\ aq_out.status = "ok" => EqualLength(aq_out, AqChannels)
    /\ EqualLength(aq_self, AqChannels)
    /\ df_acc.status = "ok" => EqualLength(df_acc.signals, DOMAIN df_acc.signals)
    /\ EqualLength(df_a, DOMAIN df_a)

\* a fold onto an accumulator that is itself the result of a fold has
\* appended samples
C20_Witness ==
    /\ aq_out.status = "ok"
    /\ Len(aq_self.probe) > MaxLenSelf
    /\ Len(aq_out.probe) > Len(aq_self.probe)

=============================================================================
